---- MODULE Spec2Model ----
(***************************************************************************)
(* RQC-Hash (sha-666): the circuit builders of IBM/rqc_hash_ibm.py and     *)
(* microsft/rqc_hash_visual_notebook.py, the evaluator fallback of main(), *)
(* the runtime quasi-distribution conversion and the digest derivation.    *)
(*                                                                         *)
(* Representation.  A byte string is a sequence of integers 0..255.  A     *)
(* text string that the code slices or formats (bitstring, hex digest,     *)
(* backend name) is a sequence of one-character strings.  A Python dict is *)
(* a sequence of <<key, value>> pairs with distinct keys, in insertion     *)
(* order.  A circuit is the sequence of the gate calls made on it.  An     *)
(* angle is an integer a standing for a * pi / RandMod.                    *)
(***************************************************************************)
EXTENDS Integers, Sequences, FiniteSets, TLC

VARIABLES
    args,                \* the parsed command line (argparse namespace)
    msg,                 \* the message bytes handed to the builders
    _runtime_available,  \* module flag: qiskit_ibm_runtime imported
    _backend_mode,       \* module flag: "provider" when qiskit_ibm_provider imported
    _aer_available,      \* module flag: qiskit_aer imported
    pc,                  \* position in main() / in the function under evaluation
    qc,                  \* the circuit handed to the evaluator
    enc,                 \* notebook: circuit returned by encode_message
    rqc,                 \* notebook: circuit returned by build_random_circuit
    result,              \* raw payload of the last Sampler result
    used,                \* main(): a remote evaluator has succeeded
    mode,                \* main(): provenance string
    counts,              \* main(): the outcome distribution
    top,                 \* main(): most frequent bitstring
    hhex,                \* main(): digest
    saved,               \* record written to rqc_counts.json
    raised,              \* exception that left main()
    attempts,            \* history: evaluator calls made, in order
    log                  \* lines printed by the fallback logic

vars == <<args, msg, _runtime_available, _backend_mode, _aer_available, pc, qc,
          enc, rqc, result, used, mode, counts, top, hhex, saved, raised,
          attempts, log>>

-----------------------------------------------------------------------------
(* Bounds of the model *)

MaxQubits == 9        \* qubit counts explored for the circuit builders
MaxDepth == 2         \* depths explored for the circuit builders
MaxMsgLen == 2        \* message lengths (bytes) explored for the encoders
MaxDigestQubits == 9  \* bitstring lengths explored for the digest
MaxTieQubits == 2     \* bitstring lengths explored for distributions of several entries
MaxCount == 2         \* largest single count in a digest distribution
MaxShots == 3         \* shot counts explored in main() and the runtime conversion
MaxKeys == 2          \* entries of a distribution returned by an evaluator
MaxDigestKeys == 2    \* entries of a distribution handed to the digest

ByteSamples == {0, 1, 128, 165, 255}
Seeds == {42, 12345}
MainQubits == {1, 2}

-----------------------------------------------------------------------------
(* Python built-ins used by the code *)

None == "None"
NotBuilt == << [name |-> "unbuilt", qubits |-> <<>>, angle |-> -1] >>

RECURSIVE Pow2(_)
Pow2(k) == IF k <= 0 THEN 1 ELSE 2 * Pow2(k - 1)

\* range(a, b, step), step > 0
RECURSIVE Range(_, _, _)
Range(a, b, step) == IF a >= b THEN <<>> ELSE <<a>> \o Range(a + step, b, step)

\* s[::-1]
RECURSIVE Reverse(_)
Reverse(s) == IF s = <<>> THEN <<>> ELSE Append(Reverse(Tail(s)), Head(s))

\* math.ceil(a / b) for a >= 0, b > 0
Ceil(a, b) == IF a % b = 0 THEN a \div b ELSE (a \div b) + 1

-----------------------------------------------------------------------------
(* Gate calls on a QuantumCircuit *)

NoAngle == -1
x(q) == [name |-> "x", qubits |-> <<q>>, angle |-> NoAngle]
rz(phi, q) == [name |-> "rz", qubits |-> <<q>>, angle |-> phi]
rx(theta, q) == [name |-> "rx", qubits |-> <<q>>, angle |-> theta]
cx(c, t) == [name |-> "cx", qubits |-> <<c, t>>, angle |-> NoAngle]
measure(qs) == [name |-> "measure", qubits |-> qs, angle |-> NoAngle]

-----------------------------------------------------------------------------
(* np.random.default_rng: a stream of reals in [0, 1).  The generator is   *)
(* outside the repository; it is modelled by a full-period congruential    *)
(* generator over RandMod values, a draw v standing for the real           *)
(* v / RandMod.                                                            *)

RandMod == 256
default_rng(seed) == seed % RandMod
\* rng.random(): <<value, next generator state>>
RngMul == 5
RngInc == 3
rng_random(rng) == LET s == (RngMul * rng + RngInc) % RandMod IN <<s, s>>
\* float(v * 2 * math.pi), in units of pi / RandMod
TwoPiTimes(v) == 2 * v

-----------------------------------------------------------------------------
(* IBM/rqc_hash_ibm.py: build_random_circuit *)

\* for i in range(8): ... (one byte b); state is <<circuit, bit_idx>>
RECURSIVE EncodeByte(_, _, _, _, _)
EncodeByte(c, bit_idx, b, i, n_qubits) ==
    IF i >= 8 THEN <<c, bit_idx>>
    ELSE IF bit_idx >= n_qubits THEN <<c, bit_idx>>          \* break
    ELSE EncodeByte(IF ((b \div Pow2(i)) % 2) = 1 THEN Append(c, x(bit_idx)) ELSE c,
                    bit_idx + 1, b, i + 1, n_qubits)

\* for b in message: ...
RECURSIVE EncodeBytes(_, _, _, _)
EncodeBytes(c, bit_idx, message, n_qubits) ==
    IF message = <<>> THEN c
    ELSE LET r == EncodeByte(c, bit_idx, Head(message), 0, n_qubits)
         IN  EncodeBytes(r[1], r[2], Tail(message), n_qubits)

\* the variant that hands the first draw to rz and the second to rx
RECURSIVE Rotations_z_first(_, _, _, _)
Rotations_z_first(c, rng, q, n_qubits) ==
    IF q >= n_qubits THEN <<c, rng>>
    ELSE LET d1 == rng_random(rng)
             d2 == rng_random(d1[2])
             theta == TwoPiTimes(d1[1])
             phi == TwoPiTimes(d2[1])
         IN  Rotations_z_first(Append(Append(c, rz(theta, q)), rx(phi, q)), d2[2], q + 1, n_qubits)

\* for q in range(n_qubits): theta, phi drawn; rz(phi, q); rx(theta, q)
RECURSIVE Rotations(_, _, _, _)
Rotations(c, rng, q, n_qubits) ==
    IF q >= n_qubits THEN <<c, rng>>
    ELSE LET d1 == rng_random(rng)
             d2 == rng_random(d1[2])
             theta == TwoPiTimes(d1[1])
             phi == TwoPiTimes(d2[1])
         IN  Rotations(Append(Append(c, rz(phi, q)), rx(theta, q)), d2[2], q + 1, n_qubits)

\* for q in <qs>: qc.cx(q, q + 1)
RECURSIVE CxPairs(_, _)
CxPairs(c, qs) ==
    IF qs = <<>> THEN c ELSE CxPairs(Append(c, cx(Head(qs), Head(qs) + 1)), Tail(qs))

\* the entangling block of one layer, with the odd pairs left out
Entangle_no_odd(c, n_qubits) ==
    LET c1 == CxPairs(c, Range(0, n_qubits - 1, 2))
    IN  IF n_qubits > 2 THEN Append(c1, cx(n_qubits - 1, 0)) ELSE c1

\* the entangling block of one layer, wrapping around from 2 qubits on
Entangle_wrap_from_2(c, n_qubits) ==
    LET c1 == CxPairs(c, Range(0, n_qubits - 1, 2))
        c2 == CxPairs(c1, Range(1, n_qubits - 1, 2))
    IN  IF n_qubits >= 2 THEN Append(c2, cx(n_qubits - 1, 0)) ELSE c2

\* the entangling block of one layer
Entangle(c, n_qubits) ==
    LET c1 == CxPairs(c, Range(0, n_qubits - 1, 2))
        c2 == CxPairs(c1, Range(1, n_qubits - 1, 2))
    IN  IF n_qubits > 2 THEN Append(c2, cx(n_qubits - 1, 0)) ELSE c2

\* for _ in range(depth): ...
RECURSIVE Layers(_, _, _, _)
Layers(c, rng, k, n_qubits) ==
    IF k <= 0 THEN c
    ELSE LET r == Rotations(c, rng, 0, n_qubits)
         IN  Layers(Entangle(r[1], n_qubits), r[2], k - 1, n_qubits)

build_random_circuit(n_qubits, depth, seed, message) ==
    LET rng == default_rng(seed)
        c1 == EncodeBytes(<<>>, 0, message, n_qubits)
        c2 == Layers(c1, rng, depth, n_qubits)
    IN  Append(c2, measure(Range(0, n_qubits, 1)))

-----------------------------------------------------------------------------
(* microsft/rqc_hash_visual_notebook.py *)

RECURSIVE nb_Rotations(_, _, _, _)
nb_Rotations(c, rng, q, n_qubits) ==
    IF q >= n_qubits THEN <<c, rng>>
    ELSE LET d1 == rng_random(rng)
             d2 == rng_random(d1[2])
             theta == TwoPiTimes(d1[1])
             phi == TwoPiTimes(d2[1])
         IN  nb_Rotations(Append(Append(c, rz(phi, q)), rx(theta, q)), d2[2], q + 1, n_qubits)

nb_Entangle(c, n_qubits) ==
    LET c1 == CxPairs(c, Range(0, n_qubits - 1, 2))
        c2 == CxPairs(c1, Range(1, n_qubits - 1, 2))
    IN  IF n_qubits > 2 THEN Append(c2, cx(n_qubits - 1, 0)) ELSE c2

RECURSIVE nb_Layers(_, _, _, _)
nb_Layers(c, rng, k, n_qubits) ==
    IF k <= 0 THEN c
    ELSE LET r == nb_Rotations(c, rng, 0, n_qubits)
         IN  nb_Layers(nb_Entangle(r[1], n_qubits), r[2], k - 1, n_qubits)

nb_build_random_circuit(n_qubits, depth, seed) ==
    nb_Layers(<<>>, default_rng(seed), depth, n_qubits)

\* bits = []; for b in msg_bytes: for i in range(8): bits.append((b >> i) & 1)
RECURSIVE MessageBits(_)
MessageBits(msg_bytes) ==
    IF msg_bytes = <<>> THEN <<>>
    ELSE [i \in 1..8 |-> (Head(msg_bytes) \div Pow2(i - 1)) % 2] \o MessageBits(Tail(msg_bytes))

\* for i, bit in enumerate(bits): if i >= n_qubits: break; if bit: qc.x(i)
RECURSIVE EncodeBits(_, _, _, _)
EncodeBits(c, bits, i, n_qubits) ==
    IF i >= Len(bits) THEN c
    ELSE IF i >= n_qubits THEN c                              \* break
    ELSE EncodeBits(IF bits[i + 1] # 0 THEN Append(c, x(i)) ELSE c, bits, i + 1, n_qubits)

\* the variant that reads each byte most-significant bit first
encode_message_msb(msg_bytes, n_qubits) ==
    LET bits == MessageBits(msg_bytes)
        flip == [i \in 1..Len(bits) |-> bits[8 * ((i - 1) \div 8) + 8 - ((i - 1) % 8)]]
    IN  EncodeBits(<<>>, flip, 0, n_qubits)

encode_message(msg_bytes, n_qubits) ==
    EncodeBits(<<>>, MessageBits(msg_bytes), 0, n_qubits)

\* main(): qc.compose(enc); qc.compose(rqc); qc.measure(range(n), range(n))
nb_compose(e, r, n) == Append(e \o r, measure(Range(0, n, 1)))

-----------------------------------------------------------------------------
(* IBM/rqc_hash_ibm.py: most_frequent_bitstring, to_hash_hex *)

\* max(items, key=lambda kv: kv[1]): the first item holding the largest value
RECURSIVE MaxItem(_, _)
MaxItem(best, items) ==
    IF items = <<>> THEN best
    ELSE MaxItem(IF Head(items)[2] > best[2] THEN Head(items) ELSE best, Tail(items))

most_frequent_bitstring(cnts) ==
    IF cnts # <<>> THEN MaxItem(Head(cnts), Tail(cnts))[1] ELSE <<>>

BinDigit(ch) == IF ch = "1" THEN 1 ELSE 0

\* int(s, 2)
RECURSIVE ParseBin(_, _)
ParseBin(acc, s) == IF s = <<>> THEN acc ELSE ParseBin(2 * acc + BinDigit(Head(s)), Tail(s))

HexChars == <<"0", "1", "2", "3", "4", "5", "6", "7", "8", "9", "a", "b", "c", "d", "e", "f">>

\* the digits of format(val, "x")
RECURSIVE HexDigits(_)
HexDigits(val) ==
    IF val < 16 THEN <<HexChars[val + 1]>>
    ELSE Append(HexDigits(val \div 16), HexChars[(val % 16) + 1])

\* zero fill of the format specs "0{w}x" and "0{w}b": pads, never truncates
ZeroFill(digits, w) ==
    IF Len(digits) >= w THEN digits ELSE [i \in 1..(w - Len(digits)) |-> "0"] \o digits

\* the digest without the reversal of the bitstring
to_hash_hex_noreverse(bitstr_msb_lsb, n_qubits) ==
    IF bitstr_msb_lsb = <<>> THEN <<>>
    ELSE ZeroFill(HexDigits(ParseBin(0, bitstr_msb_lsb)), Ceil(n_qubits, 4))

to_hash_hex(bitstr_msb_lsb, n_qubits) ==
    IF bitstr_msb_lsb = <<>> THEN <<>>
    ELSE LET val == ParseBin(0, Reverse(bitstr_msb_lsb))
         IN  ZeroFill(HexDigits(val), Ceil(n_qubits, 4))

-----------------------------------------------------------------------------
(* IBM/rqc_hash_ibm.py: run_on_ibm_runtime.  A Sampler result carries four *)
(* optional fields; a field is [kind, d] with kind "none" (absent / None), *)
(* "dict" or "list" (a one-element list holding d).  A quasi-distribution  *)
(* maps a key, [int, str] with int = -1 for a string key, to a probability *)
(* given as a numerator over QuasiDen.                                     *)

QuasiDen == 4
NoField == [kind |-> "none", d |-> <<>>]
Raise == << << <<"raise">>, -1 >> >>

Truthy(f) == f.kind = "list" \/ (f.kind = "dict" /\ f.d # <<>>)
PyOr(a, b) == IF Truthy(a) THEN a ELSE b

\* the digits of format(v, "b")
RECURSIVE BinDigits(_)
BinDigits(v) ==
    IF v < 2 THEN <<IF v = 1 THEN "1" ELSE "0">>
    ELSE Append(BinDigits(v \div 2), IF v % 2 = 1 THEN "1" ELSE "0")

\* int(round(num / den)) for num >= 0: Python rounds halves to even
PyRound(num, den) ==
    LET q == num \div den
        r == num % den
    IN  IF 2 * r < den THEN q
        ELSE IF 2 * r > den THEN q + 1
        ELSE IF q % 2 = 0 THEN q ELSE q + 1

\* d[key] = value
RECURSIVE DictSet(_, _, _)
DictSet(d, key, value) ==
    IF d = <<>> THEN << <<key, value>> >>
    ELSE IF Head(d)[1] = key THEN << <<key, value>> >> \o Tail(d)
    ELSE <<Head(d)>> \o DictSet(Tail(d), key, value)

\* for bitstr, prob in q.items(): ...
RECURSIVE QuasiToCounts(_, _, _, _)
QuasiToCounts(cnts, q, shots, num_clbits) ==
    IF q = <<>> THEN cnts
    ELSE LET bitstr == Head(q)[1]
             prob == Head(q)[2]
             key == IF bitstr.int >= 0 THEN ZeroFill(BinDigits(bitstr.int), num_clbits)
                    ELSE bitstr.str
         IN  QuasiToCounts(DictSet(cnts, key, PyRound(prob * shots, QuasiDen)),
                           Tail(q), shots, num_clbits)

\* the body of the Session block, given the Sampler's result
run_on_ibm_runtime(res, shots, num_clbits) ==
    LET q1 == PyOr(res.meas_quasi_dists, res.quasi_dists)
        q2 == IF q1.kind = "none" THEN PyOr(res.dist, res.counts) ELSE q1
    IN  IF q2.kind = "none" THEN Raise
        ELSE QuasiToCounts(<<>>, q2.d, shots, num_clbits)

-----------------------------------------------------------------------------
(* IBM/rqc_hash_ibm.py: main(), helpers *)

Whitespace == {" "}

\* str.strip()
RECURSIVE LStrip(_)
LStrip(s) == IF s # <<>> /\ Head(s) \in Whitespace THEN LStrip(Tail(s)) ELSE s
strip(s) == Reverse(LStrip(Reverse(LStrip(s))))

\* str.encode("utf-8") for code points below 0x800
RECURSIVE utf8(_)
utf8(s) ==
    IF s = <<>> THEN <<>>
    ELSE (IF Head(s) < 128 THEN <<Head(s)>>
          ELSE <<192 + (Head(s) \div 64), 128 + (Head(s) % 64)>>) \o utf8(Tail(s))

\* line 197: the runtime path is tried
RuntimeEligible(runtime_mode, runtime_available) ==
    runtime_mode \in {"auto", "cloud"} /\ runtime_available

\* the provider path tried whatever `used` says
ProviderEligibleAlways(u, runtime_mode) ==
    runtime_mode \in {"auto", "provider", "cloud"} \/ runtime_mode = "provider"

\* line 204: the provider path is considered
ProviderEligible(u, runtime_mode) ==
    ~u /\ (runtime_mode \in {"auto", "provider", "cloud"} \/ runtime_mode = "provider")

AerMode == [text |-> "Aer simulator", backend |-> <<>>, resilience |-> -1]
RuntimeMode(backend_name, resilience) ==
    [text |-> "IBM Runtime", backend |-> backend_name, resilience |-> resilience]
ProviderMode(backend_name) ==
    [text |-> "IBM Provider", backend |-> backend_name, resilience |-> -1]

UnboundMode == [text |-> "unbound", backend |-> <<>>, resilience |-> -1]
Unbound == << << <<"unbound">>, -1 >> >>
UnboundStr == <<"unbound">>
NoResult == [meas_quasi_dists |-> NoField, quasi_dists |-> NoField,
             dist |-> NoField, counts |-> NoField]

-----------------------------------------------------------------------------
(* Values the environment can supply *)

BitStrings(n) == [1..n -> {"0", "1"}]

RECURSIVE SumValues(_)
SumValues(d) == IF d = <<>> THEN 0 ELSE Head(d)[2] + SumValues(Tail(d))

Keys(d) == {d[i][1] : i \in 1..Len(d)}

\* dicts of at most maxk entries, in every insertion order
OrderedDicts(keys, vals, maxk) ==
    UNION {{d \in [1..k -> keys \X vals] : Cardinality(Keys(d)) = k} : k \in 0..maxk}

\* get_counts() of a simulator or backend run: n-bit keys, counts summing to shots
CountDicts(n, shots) ==
    {d \in OrderedDicts(BitStrings(n), 1..shots, MaxKeys) : SumValues(d) = shots}

\* keys are ints or bitstrings depending on the runtime version
IntKeys(n) == {[int |-> v, str |-> <<>>] : v \in 0..(Pow2(n) - 1)}
StrKeys(n) == {[int |-> -1, str |-> s] : s \in BitStrings(n)}

\* quasi-distributions whose probabilities sum to 1
QuasiDicts(n) ==
    {d \in OrderedDicts(IntKeys(n), 1..QuasiDen, MaxKeys)
             \cup OrderedDicts(StrKeys(n), 1..QuasiDen, MaxKeys) : SumValues(d) = QuasiDen}

\* shapes of the Sampler result the code probes for
SamplerResults(n) ==
    {NoResult}
    \cup {[NoResult EXCEPT !.meas_quasi_dists = [kind |-> "list", d |-> q]] : q \in QuasiDicts(n)}
    \cup {[NoResult EXCEPT !.quasi_dists = [kind |-> "dict", d |-> q]] : q \in QuasiDicts(n)}
    \cup {[NoResult EXCEPT !.dist = [kind |-> "dict", d |-> q]] : q \in QuasiDicts(n)}
    \cup {[NoResult EXCEPT !.counts = [kind |-> "dict", d |-> q]] : q \in QuasiDicts(n)}
    \cup {[NoResult EXCEPT !.quasi_dists = [kind |-> "dict", d |-> <<>>],
                           !.dist = [kind |-> "dict", d |-> q]] : q \in QuasiDicts(n)}

\* the environment's answers for each configuration main() explores
SamplerResultsFor == [n \in MainQubits |-> SamplerResults(n)]
CountDictsFor == [n \in MainQubits |-> [sh \in 0..MaxShots |-> CountDicts(n, sh)]]

Backends == {<<>>, <<" ">>, <<"q">>}
RuntimeChoices == {"auto", "provider", "cloud", ""}
MainMessages == {<<104, 233>>}
ByteStrings == UNION {[1..k -> ByteSamples] : k \in 0..MaxMsgLen}

-----------------------------------------------------------------------------
(* IBM/rqc_hash_ibm.py: main() *)

backend_name == strip(args.backend)

Attempt(ev, ok, d) == [ev |-> ev, ok |-> ok, dist |-> d]

TypeOK ==
    /\ pc \in {"start", "built", "after_runtime", "after_provider", "evaluated", "done",
               "error", "call", "ibm_done", "nb_encoded", "nb_generated", "nb_done"}
    /\ used \in BOOLEAN
    /\ _runtime_available \in BOOLEAN
    /\ _aer_available \in BOOLEAN
    /\ _backend_mode \in {None, "provider"}

Init ==
    /\ args \in [message : MainMessages, n : MainQubits, d : {1}, seed : {42},
                 shots : 0..MaxShots, backend : Backends, runtime : RuntimeChoices,
                 resilience : {1}]
    /\ _runtime_available \in BOOLEAN
    /\ _backend_mode \in {None, "provider"}
    /\ _aer_available \in BOOLEAN
    /\ msg = <<>>
    /\ pc = "start"
    /\ qc = NotBuilt /\ enc = NotBuilt /\ rqc = NotBuilt
    /\ result = NoResult
    /\ used = FALSE
    /\ mode = UnboundMode
    /\ counts = Unbound
    /\ top = UnboundStr /\ hhex = UnboundStr
    /\ saved = <<>>
    /\ raised = None
    /\ attempts = <<>>
    /\ log = <<>>

\* lines 181-182
Build ==
    /\ pc = "start"
    /\ msg' = utf8(args.message)
    /\ qc' = build_random_circuit(args.n, args.d, args.seed, msg')
    /\ pc' = "built"
    /\ UNCHANGED <<args, _runtime_available, _backend_mode, _aer_available, enc, rqc,
                   result, used, mode, counts, top, hhex, saved, raised, attempts, log>>

\* run_on_aer, lines 115-121, as called from main: raises without Aer; with
\* shots <= 0 the simulator either raises or returns no counts.
AerCall(nextpc) ==
    \/ /\ ~_aer_available
       /\ pc' = "error"
       /\ raised' = "RuntimeError"
       /\ attempts' = Append(attempts, Attempt("aer", FALSE, Unbound))
       /\ UNCHANGED <<counts, mode>>
    \/ /\ _aer_available
       /\ args.shots <= 0
       /\ pc' = "error"
       /\ raised' = "AerError"
       /\ attempts' = Append(attempts, Attempt("aer", FALSE, Unbound))
       /\ UNCHANGED <<counts, mode>>
    \/ /\ _aer_available
       /\ \E c \in CountDictsFor[args.n][args.shots] :
            /\ counts' = c
            /\ attempts' = Append(attempts, Attempt("aer", TRUE, c))
       /\ mode' = AerMode
       /\ pc' = nextpc
       /\ UNCHANGED raised

\* lines 190-193
RunLocal ==
    /\ pc = "built"
    /\ backend_name = <<>>
    /\ AerCall("evaluated")
    /\ UNCHANGED <<args, msg, _runtime_available, _backend_mode, _aer_available, qc, enc,
                   rqc, result, used, top, hhex, saved, log>>

\* lines 194-203
TryRuntime ==
    /\ pc = "built"
    /\ backend_name # <<>>
    /\ pc' = "after_runtime"
    /\ IF RuntimeEligible(args.runtime, _runtime_available)
       THEN \/ \E res \in SamplerResultsFor[args.n] :
                 LET c == run_on_ibm_runtime(res, args.shots, args.n)
                 IN  /\ result' = res
                     /\ IF c = Raise
                        THEN /\ log' = Append(log, "[Runtime] Failed")
                             /\ attempts' = Append(attempts, Attempt("runtime", FALSE, Unbound))
                             /\ UNCHANGED <<counts, mode, used>>
                        ELSE /\ counts' = c
                             /\ mode' = RuntimeMode(backend_name, args.resilience)
                             /\ used' = TRUE
                             /\ attempts' = Append(attempts, Attempt("runtime", TRUE, c))
                             /\ UNCHANGED log
            \/ /\ log' = Append(log, "[Runtime] Failed")          \* service, session or job failed
               /\ attempts' = Append(attempts, Attempt("runtime", FALSE, Unbound))
               /\ UNCHANGED <<counts, mode, used, result>>
       ELSE UNCHANGED <<counts, mode, used, result, attempts, log>>
    /\ UNCHANGED <<args, msg, _runtime_available, _backend_mode, _aer_available, qc, enc,
                   rqc, top, hhex, saved, raised>>

\* lines 204-210; run_on_ibm_provider, lines 124-130, is not guarded by a try
TryProvider ==
    /\ pc = "after_runtime"
    /\ IF ProviderEligible(used, args.runtime)
       THEN IF _backend_mode = "provider"
            THEN \/ /\ \E c \in CountDictsFor[args.n][args.shots] :
                         /\ counts' = c
                         /\ attempts' = Append(attempts, Attempt("provider", TRUE, c))
                    /\ mode' = ProviderMode(backend_name)
                    /\ used' = TRUE
                    /\ pc' = "after_provider"
                    /\ UNCHANGED <<raised, log>>
                 \/ /\ attempts' = Append(attempts, Attempt("provider", FALSE, Unbound))
                    /\ raised' = "ProviderError"
                    /\ pc' = "error"
                    /\ UNCHANGED <<counts, mode, used, log>>
            ELSE /\ log' = Append(log, "[Provider] qiskit-ibm-provider not available.")
                 /\ pc' = "after_provider"
                 /\ UNCHANGED <<counts, mode, used, attempts, raised>>
       ELSE /\ pc' = "after_provider"
            /\ UNCHANGED <<counts, mode, used, attempts, raised, log>>
    /\ UNCHANGED <<args, msg, _runtime_available, _backend_mode, _aer_available, qc, enc,
                   rqc, result, top, hhex, saved>>

\* lines 211-215
LastResort ==
    /\ pc = "after_provider"
    /\ IF ~used
       THEN /\ log' = Append(log, "[Warning] IBM backends unavailable. Using Aer simulator.")
            /\ AerCall("evaluated")
       ELSE /\ pc' = "evaluated"
            /\ UNCHANGED <<counts, mode, attempts, raised, log>>
    /\ UNCHANGED <<args, msg, _runtime_available, _backend_mode, _aer_available, qc, enc,
                   rqc, result, used, top, hhex, saved>>

\* lines 217-241
Collapse ==
    /\ pc = "evaluated"
    /\ top' = most_frequent_bitstring(counts)
    /\ hhex' = to_hash_hex(top', args.n)
    /\ saved' = << [mode |-> mode, message |-> args.message, n_qubits |-> args.n,
                    depth |-> args.d, seed |-> args.seed, shots |-> args.shots,
                    top_bitstring |-> top', hash_hex |-> hhex', counts |-> counts] >>
    /\ pc' = "done"
    /\ UNCHANGED <<args, msg, _runtime_available, _backend_mode, _aer_available, qc, enc,
                   rqc, result, used, mode, counts, raised, attempts, log>>

Next == Build \/ RunLocal \/ TryRuntime \/ TryProvider \/ LastResort \/ Collapse

Spec == Init /\ [][Next]_vars

-----------------------------------------------------------------------------
(* The circuit builders of both files, applied to drawn inputs *)

InitCircuit ==
    /\ args \in [message : {<<>>}, n : 1..MaxQubits, d : 0..MaxDepth, seed : Seeds,
                 shots : {1}, backend : {<<>>}, runtime : {"auto"}, resilience : {0}]
    /\ msg \in ByteStrings
    /\ _runtime_available = FALSE
    /\ _backend_mode = None
    /\ _aer_available = TRUE
    /\ pc = "call"
    /\ qc = NotBuilt /\ enc = NotBuilt /\ rqc = NotBuilt
    /\ result = NoResult
    /\ used = FALSE
    /\ mode = UnboundMode
    /\ counts = Unbound
    /\ top = UnboundStr /\ hhex = UnboundStr
    /\ saved = <<>>
    /\ raised = None
    /\ attempts = <<>>
    /\ log = <<>>

CircuitFrame ==
    UNCHANGED <<args, msg, _runtime_available, _backend_mode, _aer_available, result, used,
                mode, counts, top, hhex, saved, raised, attempts, log>>

\* rqc_hash_ibm.py: qc = build_random_circuit(n, d, seed, msg)
IbmBuild ==
    /\ pc = "call"
    /\ qc' = build_random_circuit(args.n, args.d, args.seed, msg)
    /\ pc' = "ibm_done"
    /\ UNCHANGED <<enc, rqc>>
    /\ CircuitFrame

\* notebook main(), line 53
NbEncode ==
    /\ pc = "call"
    /\ enc' = encode_message(msg, args.n)
    /\ pc' = "nb_encoded"
    /\ UNCHANGED <<qc, rqc>>
    /\ CircuitFrame

\* notebook main(), line 54
NbGenerate ==
    /\ pc = "nb_encoded"
    /\ rqc' = nb_build_random_circuit(args.n, args.d, args.seed)
    /\ pc' = "nb_generated"
    /\ UNCHANGED <<qc, enc>>
    /\ CircuitFrame

\* notebook main(), lines 55-58
NbCompose ==
    /\ pc = "nb_generated"
    /\ qc' = nb_compose(enc, rqc, args.n)
    /\ pc' = "nb_done"
    /\ UNCHANGED <<enc, rqc>>
    /\ CircuitFrame

NextCircuit == IbmBuild \/ NbEncode \/ NbGenerate \/ NbCompose

SpecCircuit == InitCircuit /\ [][NextCircuit]_vars

-----------------------------------------------------------------------------
(* Properties of the circuit builders *)

IsX(op) == op.name = "x"
IsRz(op) == op.name = "rz"
IsRx(op) == op.name = "rx"
IsCx(op) == op.name = "cx"

Min(a, b) == IF a < b THEN a ELSE b

\* bit k of the message, bytes in order, each byte least-significant bit first
MsgBit(m, k) == (m[(k \div 8) + 1] \div Pow2(k % 8)) % 2

\* the x operations of circuit c are exactly the set bits below min(n, 8 * len), ascending
EncodingOK(c, m, n) ==
    LET xs == SelectSeq(c, IsX)
    IN  /\ \A k \in 0..(n + 8 * Len(m)) :
              (\E i \in 1..Len(xs) : xs[i].qubits = <<k>>)
                  <=> (k < Min(n, 8 * Len(m)) /\ MsgBit(m, k) = 1)
        /\ \A i \in 1..Len(xs) : \A j \in 1..Len(xs) :
              i < j => xs[i].qubits[1] < xs[j].qubits[1]
        /\ \A i \in 1..Len(xs) : xs[i].qubits[1] < n

XQubits(c) == LET xs == SelectSeq(c, IsX) IN [i \in 1..Len(xs) |-> xs[i].qubits[1]]

\* C3: both encoders set qubit k exactly when k < min(n, 8 * len(message)) and
\* bit k mod 8 (from the least-significant bit) of byte k div 8 is 1, in
\* ascending k, never a qubit >= n; b"\x01" at 8 sets qubit 0, b"\x80" at 8
\* sets qubit 7, b"\xff\xff" at 4 sets qubits 0..3.
C3_Encoding ==
    /\ pc = "ibm_done" =>
          /\ EncodingOK(qc, msg, args.n)
          /\ (msg = <<1>> /\ args.n = 8) => XQubits(qc) = <<0>>
          /\ (msg = <<128>> /\ args.n = 8) => XQubits(qc) = <<7>>
          /\ (msg = <<255, 255>> /\ args.n = 4) => XQubits(qc) = <<0, 1, 2, 3>>
    /\ pc \in {"nb_encoded", "nb_generated", "nb_done"} =>
          /\ EncodingOK(enc, msg, args.n)
          /\ Len(SelectSeq(enc, IsX)) = Len(enc)
          /\ (msg = <<1>> /\ args.n = 8) => XQubits(enc) = <<0>>
          /\ (msg = <<128>> /\ args.n = 8) => XQubits(enc) = <<7>>
          /\ (msg = <<255, 255>> /\ args.n = 4) => XQubits(enc) = <<0, 1, 2, 3>>

\* a truncated two-byte message has been encoded by the notebook encoder
C3_Witness ==
    /\ pc = "nb_encoded"
    /\ msg = <<255, 255>> /\ args.n = 4
    /\ XQubits(enc) = <<0, 1, 2, 3>>

NEven(n) == n \div 2
NOdd(n) == (n - 1) \div 2
LayerLen(n) == 2 * n + NEven(n) + NOdd(n) + (IF n > 2 THEN 1 ELSE 0)

\* one layer: rz, rx per qubit, even pairs, odd pairs, wrap-around iff n > 2
LayerOK(L, n) ==
    /\ Len(L) = LayerLen(n)
    /\ \A q \in 0..(n - 1) :
          /\ L[2 * q + 1].name = "rz" /\ L[2 * q + 1].qubits = <<q>>
          /\ L[2 * q + 2].name = "rx" /\ L[2 * q + 2].qubits = <<q>>
    /\ \A j \in 0..(NEven(n) - 1) :
          /\ L[2 * n + 1 + j].name = "cx"
          /\ L[2 * n + 1 + j].qubits = <<2 * j, 2 * j + 1>>
    /\ \A j \in 0..(NOdd(n) - 1) :
          /\ L[2 * n + NEven(n) + 1 + j].name = "cx"
          /\ L[2 * n + NEven(n) + 1 + j].qubits = <<2 * j + 1, 2 * j + 2>>
    /\ n > 2 => /\ L[LayerLen(n)].name = "cx"
                /\ L[LayerLen(n)].qubits = <<n - 1, 0>>
    /\ \A j \in 0..(NEven(n) - 1) : 2 * j + 1 < n
    /\ \A j \in 0..(NOdd(n) - 1) : 2 * j + 2 < n

BodyOK(body, n, d) ==
    /\ Len(body) = d * LayerLen(n)
    /\ \A l \in 0..(d - 1) : LayerOK(SubSeq(body, l * LayerLen(n) + 1, (l + 1) * LayerLen(n)), n)
    /\ \A i \in 1..Len(body) : \A k \in 1..Len(body[i].qubits) :
          body[i].qubits[k] \in 0..(n - 1)

\* the generated part of the IBM circuit: after the x prefix, before the measurement
IbmBody(c) == SubSeq(c, Len(SelectSeq(c, IsX)) + 1, Len(c) - 1)

\* C4: the generated sequence is exactly d layers, each: for q ascending rz on q
\* then rx on q; cx(q, q+1) for even q while q+1 < n; cx(q, q+1) for odd q
\* while q+1 < n; cx(n-1, 0) iff n > 2; nothing else; all qubits in [0, n).
C4_LayerStructure ==
    /\ pc = "ibm_done" => BodyOK(IbmBody(qc), args.n, args.d)
    /\ pc \in {"nb_generated", "nb_done"} => BodyOK(rqc, args.n, args.d)

\* a two-layer circuit over five qubits, with odd pairs and wrap-around, has been built
C4_Witness ==
    /\ pc = "ibm_done"
    /\ args.n = 5 /\ args.d = 2
    /\ Len(SelectSeq(qc, IsCx)) = 10

\* b^k and 1 + b + ... + b^(k-1), modulo RandMod, by halving k
RECURSIVE PowMod(_, _)
PowMod(b, k) ==
    IF k = 0 THEN 1 % RandMod
    ELSE IF k % 2 = 1 THEN (b * PowMod(b, k - 1)) % RandMod
    ELSE LET h == PowMod(b, k \div 2) IN (h * h) % RandMod

RECURSIVE GeoMod(_, _)
GeoMod(b, k) ==
    IF k = 0 THEN 0
    ELSE IF k % 2 = 1 THEN (1 + b * GeoMod(b, k - 1)) % RandMod
    ELSE (GeoMod(b, k \div 2) * (1 + PowMod(b, k \div 2))) % RandMod

\* draw number k (from 0) of the stream seeded with seed: the generator's
\* state after k + 1 steps, in closed form
Draw(seed, k) ==
    (PowMod(RngMul, k + 1) * default_rng(seed) + RngInc * GeoMod(RngMul, k + 1)) % RandMod

\* the j-th rotation pair (j = l * n + q) takes its rz angle from draw zd(j) and
\* its rx angle from draw xd(j)
DrawOrder(c, n, d, seed, zoff, xoff) ==
    LET zs == SelectSeq(c, IsRz)
        xs == SelectSeq(c, IsRx)
    IN  /\ Len(zs) = n * d /\ Len(xs) = n * d
        /\ \A l \in 0..(d - 1) : \A q \in 0..(n - 1) :
              LET j == l * n + q
              IN  /\ zs[j + 1].qubits = <<q>> /\ xs[j + 1].qubits = <<q>>
                  /\ zs[j + 1].angle = TwoPiTimes(Draw(seed, 2 * j + zoff))
                  /\ xs[j + 1].angle = TwoPiTimes(Draw(seed, 2 * j + xoff))

\* C5 as stated: the rz angle on q in layer l is draw 2*(l*n+q), the rx angle
\* is draw 2*(l*n+q)+1, each scaled by 2*pi.
C5_DrawOrder_Original ==
    /\ pc = "ibm_done" => DrawOrder(qc, args.n, args.d, args.seed, 0, 1)
    /\ pc \in {"nb_generated", "nb_done"} => DrawOrder(rqc, args.n, args.d, args.seed, 0, 1)

\* C5 (amended): the rz angle on q in layer l is draw 2*(l*n+q)+1, the second
\* of the pair, and the rx angle is draw 2*(l*n+q), the first of the pair,
\* each scaled by 2*pi.
C5_DrawOrder ==
    /\ pc = "ibm_done" => DrawOrder(qc, args.n, args.d, args.seed, 1, 0)
    /\ pc \in {"nb_generated", "nb_done"} => DrawOrder(rqc, args.n, args.d, args.seed, 1, 0)

\* a circuit of two layers over three qubits has drawn twelve distinct values
C5_Witness ==
    /\ pc = "nb_generated"
    /\ args.n = 3 /\ args.d = 2
    /\ Cardinality({Draw(args.seed, k) : k \in 0..11}) = 12
    /\ SelectSeq(rqc, IsRz)[1].angle = TwoPiTimes(Draw(args.seed, 1))

CxQubits(c) == LET cs == SelectSeq(c, IsCx) IN [i \in 1..Len(cs) |-> cs[i].qubits]
Has(s, e) == \E i \in 1..Len(s) : s[i] = e

\* C6 as stated: at depth 1, 2 qubits give exactly the pair (0,1) and no
\* wrap-around; 3 qubits give (0,1) and the wrap-around (2,0) but no odd pair.
C6_EdgeCases_Original ==
    \A c \in (IF pc = "ibm_done" THEN {qc} ELSE {}) \cup
             (IF pc \in {"nb_generated", "nb_done"} THEN {rqc} ELSE {}) :
       /\ (args.n = 2 /\ args.d = 1) => CxQubits(c) = << <<0, 1>> >>
       /\ (args.n = 3 /\ args.d = 1) =>
             /\ Has(CxQubits(c), <<0, 1>>)
             /\ Has(CxQubits(c), <<2, 0>>)
             /\ ~Has(CxQubits(c), <<1, 2>>)

\* C6 (amended): at depth 1, 2 qubits give exactly the pair (0,1) and no
\* wrap-around; 3 qubits give exactly the even pair (0,1), the odd pair (1,2)
\* and the wrap-around (2,0), in this order.
C6_EdgeCases ==
    \A c \in (IF pc = "ibm_done" THEN {qc} ELSE {}) \cup
             (IF pc \in {"nb_generated", "nb_done"} THEN {rqc} ELSE {}) :
       /\ (args.n = 2 /\ args.d = 1) => CxQubits(c) = << <<0, 1>> >>
       /\ (args.n = 3 /\ args.d = 1) => CxQubits(c) = << <<0, 1>>, <<1, 2>>, <<2, 0>> >>

\* a one-layer circuit over three qubits has been built by the IBM builder
C6_Witness ==
    /\ pc = "ibm_done"
    /\ args.n = 3 /\ args.d = 1
    /\ Has(CxQubits(qc), <<1, 2>>)

-----------------------------------------------------------------------------
(* The digest step of main(), applied to drawn distributions *)

InitDigest ==
    /\ \E n \in 1..MaxDigestQubits :
          /\ args = [message |-> <<104>>, n |-> n, d |-> 1, seed |-> 42, shots |-> 1,
                     backend |-> <<>>, runtime |-> "auto", resilience |-> 0]
          /\ \/ counts \in OrderedDicts(BitStrings(n), 1..MaxCount, 1)
             \/ /\ n <= MaxTieQubits
                /\ counts \in OrderedDicts(BitStrings(n), 1..MaxCount, MaxDigestKeys)
    /\ msg = <<104>>
    /\ _runtime_available = FALSE
    /\ _backend_mode = None
    /\ _aer_available = TRUE
    /\ pc = "evaluated"
    /\ qc = NotBuilt /\ enc = NotBuilt /\ rqc = NotBuilt
    /\ result = NoResult
    /\ used = FALSE
    /\ mode = AerMode
    /\ top = UnboundStr /\ hhex = UnboundStr
    /\ saved = <<>>
    /\ raised = None
    /\ attempts = <<>>
    /\ log = <<>>

NextDigest == Collapse

SpecDigest == InitDigest /\ [][NextDigest]_vars

-----------------------------------------------------------------------------
(* Properties of the digest *)

HexValueOf(ch) ==
    CASE ch = "0" -> 0 [] ch = "1" -> 1 [] ch = "2" -> 2 [] ch = "3" -> 3
      [] ch = "4" -> 4 [] ch = "5" -> 5 [] ch = "6" -> 6 [] ch = "7" -> 7
      [] ch = "8" -> 8 [] ch = "9" -> 9 [] ch = "a" -> 10 [] ch = "b" -> 11
      [] ch = "c" -> 12 [] ch = "d" -> 13 [] ch = "e" -> 14 [] ch = "f" -> 15
      [] OTHER -> -1

\* the number a hexadecimal string denotes
RECURSIVE HexValue(_)
HexValue(h) ==
    IF h = <<>> THEN 0 ELSE 16 * HexValue(SubSeq(h, 1, Len(h) - 1)) + HexValueOf(h[Len(h)])

\* sum over i of p[i] * 2^i, the first character being bit 0
RECURSIVE LsbFirstValue(_)
LsbFirstValue(p) ==
    IF p = <<>> THEN 0 ELSE (IF Head(p) = "1" THEN 1 ELSE 0) + 2 * LsbFirstValue(Tail(p))

\* C7: for a non-empty n-character bitstring the digest is the lowercase
\* hexadecimal rendering of the bitstring read first-character-least-significant,
\* of length exactly ceil(n/4); "110" at n = 3 gives "3"; the empty
\* distribution gives the empty bitstring and the empty digest.
C7_Digest ==
    pc = "done" =>
       /\ counts = <<>> => (top = <<>> /\ hhex = <<>>)
       /\ (top # <<>> /\ Len(top) = args.n) =>
             /\ Len(hhex) = (args.n + 3) \div 4
             /\ \A i \in 1..Len(hhex) : HexValueOf(hhex[i]) \in 0..15
             /\ HexValue(hhex) = LsbFirstValue(top)
       /\ (top = <<"1", "1", "0">> /\ args.n = 3) => hhex = <<"3">>

\* the asymmetric bitstring "110" over three qubits has been digested
C7_Witness ==
    /\ pc = "done"
    /\ args.n = 3
    /\ top = <<"1", "1", "0">>
    /\ hhex = <<"3">>

\* a precedes b in lexicographic order
LexLess(a, b) ==
    \E i \in 1..Min(Len(a), Len(b)) :
        /\ \A k \in 1..(i - 1) : a[k] = b[k]
        /\ a[i] = "0" /\ b[i] = "1"

\* C8: for a non-empty distribution the selected bitstring holds the maximum
\* count, and among the bitstrings holding the maximum count it is the
\* lexicographically smallest, whatever the insertion order of the keys.
C8_ModalSelection ==
    (pc = "done" /\ counts # <<>>) =>
        \E i \in 1..Len(counts) :
            /\ counts[i][1] = top
            /\ \A j \in 1..Len(counts) : counts[j][2] <= counts[i][2]
            /\ \A j \in 1..Len(counts) :
                  counts[j][2] = counts[i][2] => ~LexLess(counts[j][1], top)

-----------------------------------------------------------------------------
(* Properties of the evaluator fallback of main() *)

ValidConfig == args.n >= 1 /\ args.shots >= 1
Remote == {"runtime", "provider"}
Tried(ev) == \E i \in 1..Len(attempts) : attempts[i].ev = ev
Succeeded(ev) == \E i \in 1..Len(attempts) : attempts[i].ev = ev /\ attempts[i].ok
NoRemoteSuccess == \A i \in 1..Len(attempts) : attempts[i].ev \in Remote => ~attempts[i].ok
Rank(ev) == CASE ev = "runtime" -> 1 [] ev = "provider" -> 2 [] OTHER -> 3
ModeText(ev) ==
    CASE ev = "runtime" -> "IBM Runtime" [] ev = "provider" -> "IBM Provider"
      [] OTHER -> "Aer simulator"

\* C1: with a non-empty backend name, a valid configuration and Aer available,
\* a run in which every remote attempt failed ends normally with the local
\* evaluator's distribution and the provenance "Aer simulator"; no exception
\* leaves the evaluation step.
C1_FallbackNeverRaises ==
    (/\ ValidConfig
     /\ backend_name # <<>>
     /\ _aer_available
     /\ pc \in {"evaluated", "done", "error"}
     /\ NoRemoteSuccess)
    => /\ pc # "error"
       /\ raised = None
       /\ mode = AerMode
       /\ attempts[Len(attempts)] = Attempt("aer", TRUE, counts)

\* C2: an empty backend name tries the local evaluator only; otherwise runtime
\* is tried first and only if mode is auto or cloud and the runtime capability
\* is present, the provider only if runtime did not succeed, mode is auto,
\* provider or cloud and the provider capability is present, the local
\* evaluator only if no remote attempt succeeded; nothing is tried after a
\* success, and a completed run's distribution and provenance are those of
\* the one successful evaluator.
C2_FirstSuccessWins ==
    /\ \A i \in 1..Len(attempts) : \A j \in 1..Len(attempts) :
          i < j => (Rank(attempts[i].ev) < Rank(attempts[j].ev) /\ ~attempts[i].ok)
    /\ backend_name = <<>> => (~Tried("runtime") /\ ~Tried("provider"))
    /\ Tried("runtime") => (args.runtime \in {"auto", "cloud"} /\ _runtime_available)
    /\ Tried("provider") =>
          /\ ~Succeeded("runtime")
          /\ args.runtime \in {"auto", "provider", "cloud"}
          /\ _backend_mode = "provider"
    /\ Tried("aer") => NoRemoteSuccess
    /\ pc = "done" =>
          /\ attempts # <<>>
          /\ attempts[Len(attempts)].ok
          /\ counts = attempts[Len(attempts)].dist
          /\ mode.text = ModeText(attempts[Len(attempts)].ev)
          /\ saved[1].mode = mode /\ saved[1].counts = counts
          /\ backend_name = <<>> => Len(attempts) = 1
          /\ (backend_name # <<>> /\ args.runtime \in {"auto", "cloud"} /\ _runtime_available)
                => attempts[1].ev = "runtime"

\* a run in which runtime failed and the provider then succeeded has completed
C2_Witness ==
    /\ pc = "done"
    /\ Len(attempts) = 2
    /\ attempts[1].ev = "runtime" /\ ~attempts[1].ok
    /\ attempts[2].ev = "provider" /\ attempts[2].ok
    /\ mode.text = "IBM Provider"

\* C9: with a qubit count <= 0 or a shot count <= 0 no circuit is built, no
\* evaluator is attempted, no record is written and no digest is produced.
C9_ConfigErrorsFatal ==
    (args.n <= 0 \/ args.shots <= 0) =>
        /\ qc = NotBuilt
        /\ attempts = <<>>
        /\ saved = <<>>
        /\ hhex = UnboundStr
        /\ pc \in {"start", "error"}

\* C10: every distribution the evaluation step returns has a sum of counts
\* no greater than the requested shot count.
C10_CountsWithinShots ==
    counts # Unbound => SumValues(counts) <= args.shots

====
